---- MODULE Spec2Model ----
(***************************************************************************)
(* Model of the movie discovery pipeline of movie_finder.py: the HTTP      *)
(* helper _get with its retry loop, the provider-name resolver, the        *)
(* discovery paginator, per-movie enrichment and the command-line run.     *)
(* Time is counted in half seconds so that 1.5 s is the integer 3.         *)
(***************************************************************************)
EXTENDS Integers, Sequences, FiniteSets, TLC

VARIABLES
    retries,                    \* _get: the retries argument of the call
    attempt,                    \* _get: loop variable of `for attempt in range(retries)`
    last_exception,             \* _get: TRUE when last_exception is not None
    getState,                   \* _get: "idle", "running" or how the call ended
    getMsg,                     \* _get: which SystemExit message ended the call
    getResult,                  \* _get: the body returned ("none" until it returns)
    getLog,                     \* _get: the responses of this call, with the sleeps around them
    jsonErrIsRequestException,  \* build: r.json() raises a RequestException subclass (requests >= 2.27)
    names,                      \* resolve_preferred_ids: the wanted names
    id_map,                     \* resolve_preferred_ids: lowercased name -> id, in insertion order
    matched,                    \* resolve_preferred_ids: the returned set of ids
    resolveState,               \* resolve_preferred_ids: "idle" or "returned"
    pages,                      \* discover_new_movies: the pages argument
    page,                       \* discover_new_movies: loop variable of `for page in range(1, pages + 1)`
    results,                    \* discover_new_movies: the candidates collected so far
    discState,                  \* discover_new_movies: "idle", "running", "returned" or "SystemExit"
    pageLog,                    \* discover_new_movies: the pages asked for and what came back
    PREFERRED_PROVIDER_NAMES,   \* configuration: the wanted provider names
    MAX_RESULTS_PER_GENRE,      \* configuration: the per-genre cap, 0 for none
    serverDirectory,            \* server: the provider directory of the region
    serverGenres,               \* server: the genre list
    id_to_name,                 \* main: provider id -> name
    allowed_ids,                \* main: the provider ids enrichment accepts
    genre_map,                  \* main: genre id -> name
    idx,                        \* main: position of `for m in candidates` (1-based)
    movies,                     \* main: the enriched movies so far
    providers,                  \* main: the providers picked for the current candidate
    by_genre,                   \* main: the grouped, sorted and capped result
    pc,                         \* main: the call the run is at
    runState,                   \* main: "running", "done", "SystemExit" or "failed"
    runMsg,                     \* main: what ended the run
    saw401,                     \* history: some request of the run was answered 401
    qualifiedLog,               \* history: per candidate processed, did the payload received qualify
    callLog,                    \* history: the _get calls of the run, in the order they were made
    frontend,                   \* which program runs the pipeline: "cli" (movie_finder.py) or "gui" (main.py)
    movies_by_genre,            \* MovieFinderApp: self.movies_by_genre
    clock,                      \* MovieFinderApp: callbacks passed to Clock.schedule_once, not yet run
    status_label,               \* MovieFinderApp: text shown by the status label
    genre_chips,                \* MovieFinderApp: genres that have a filter button
    uiLog,                      \* history: what each read of movies_by_genre by the UI thread saw
    candidate,                  \* enrichment of one raw record: the record
    enriched,                   \* enrichment of one raw record: the movie built, or the exception
    scored,                     \* rank_score: the arguments of the next call
    scoreLog                    \* history: the vote counts rank_score was called with and what it returned

getVars == <<retries, attempt, last_exception, getState, getMsg, getResult, getLog>>

resolveVars == <<names, id_map, matched, resolveState>>

discVars == <<pages, page, results, discState, pageLog>>

configVars == <<PREFERRED_PROVIDER_NAMES, MAX_RESULTS_PER_GENRE, serverDirectory, serverGenres>>

mainVars == <<id_to_name, allowed_ids, genre_map, idx, movies, providers, by_genre,
              pc, runState, runMsg, saw401, qualifiedLog, callLog>>

guiVars == <<frontend, movies_by_genre, clock, status_label, genre_chips, uiLog>>

enrichVars == <<candidate, enriched>>

rankVars == <<scored, scoreLog>>

vars == <<retries, attempt, last_exception, getState, getMsg, getResult, getLog,
          jsonErrIsRequestException, names, id_map, matched, resolveState,
          pages, page, results, discState, pageLog,
          PREFERRED_PROVIDER_NAMES, MAX_RESULTS_PER_GENRE, serverDirectory, serverGenres,
          id_to_name, allowed_ids, genre_map, idx, movies, providers, by_genre,
          pc, runState, runMsg, saw401, qualifiedLog, callLog,
          frontend, movies_by_genre, clock, status_label, genre_chips, uiLog,
          candidate, enriched,
          scored, scoreLog>>

-----------------------------------------------------------------------------
(* Bounds *)

MaxRetries == 4
MaxRetryAfter == 2
MaxNameLen == 2             \* characters in a provider name
MaxWanted == 1              \* wanted names given to resolve_preferred_ids
MaxDir == 2                 \* providers in a directory
MaxPid == 2                 \* provider ids are 1..MaxPid
MaxPages == 2               \* the pages argument of discover_new_movies
MaxMovies == 2              \* movies in the server's catalog
MaxPerPage == 2             \* candidates on one discovery page
MaxCandidates == 2          \* candidates one run's discovery returns
MaxGenres == 1              \* genres in the server's genre list
MaxCap == 1                 \* MAX_RESULTS_PER_GENRE is 0..MaxCap

(* Program constants *)

DefaultRetries == 3
MaxDelay == 20              \* 10 seconds, in half seconds
RunPages == 5               \* discover_new_movies(..., pages=5)
PriorVotes == 150           \* m of rank_score
PriorMean == 65             \* C of rank_score, 6.5 in tenths

-----------------------------------------------------------------------------
(* The server's answer to one requests.get call *)

OkKinds == {"ok_dict", "ok_list"}

\* ok_dict / ok_list : 2xx, body decodes to an object / an array
\* ok_scalar         : 2xx, body decodes to a number, string, boolean or null
\* bad_json          : 2xx, body is not decodable
\* net_err           : requests.get raises (connection error, timeout)
\* http_err          : 4xx/5xx status other than 401 and 429
\* s401              : HTTP 401
\* s429_hdr          : HTTP 429 with an integer Retry-After header
\* s429_nohdr        : HTTP 429 without Retry-After
\* s429_badhdr       : HTTP 429 whose Retry-After is not an integer (an HTTP date)
Kinds == OkKinds \cup {"ok_scalar", "bad_json", "net_err", "http_err", "s401",
                       "s429_hdr", "s429_nohdr", "s429_badhdr"}

Kinds429 == {"s429_hdr", "s429_nohdr", "s429_badhdr"}

Bodies == {"b1", "b2"}

RetryAfterValues == 0..MaxRetryAfter      \* seconds

Responses == [kind : Kinds \ {"s429_hdr"}, body : Bodies, retryAfter : {0}]
             \cup [kind : {"s429_hdr"}, body : Bodies, retryAfter : RetryAfterValues]

Min(a, b) == IF a < b THEN a ELSE b

\* BackoffDelay without the ceiling of line 97.
BackoffDelay_Uncapped(a) == IF a > 0 THEN 3 * (2 ^ a) ELSE 0

\* delay = min(1.5 * (2 ** attempt), 10), slept only when attempt > 0
BackoffDelay(a) == IF a > 0 THEN Min(3 * (2 ^ a), MaxDelay) ELSE 0

\* retry_after = int(r.headers.get('Retry-After', 1.5 * (2 ** attempt)))
RetryAfterWait(resp, a) ==
    IF resp.kind = "s429_hdr" THEN 2 * resp.retryAfter
    ELSE 2 * ((3 * (2 ^ a)) \div 2)

\* HandlerOf with a 401 raised through raise_for_status like any error status.
HandlerOf_AuthRetried(resp, jsonIsReq) ==
    CASE resp.kind \in OkKinds -> "return"
      [] resp.kind = "s401" -> "RequestException"
      [] resp.kind \in {"s429_hdr", "s429_nohdr"} -> "continue"
      [] resp.kind = "s429_badhdr" -> "ValueError"
      [] resp.kind = "ok_scalar" -> "ValueError"
      [] resp.kind = "bad_json" -> IF jsonIsReq THEN "RequestException" ELSE "ValueError"
      [] resp.kind \in {"net_err", "http_err"} -> "RequestException"

\* Which except clause of _get the attempt lands in, or how it leaves the try.
HandlerOf(resp, jsonIsReq) ==
    CASE resp.kind \in OkKinds -> "return"
      [] resp.kind = "s401" -> "SystemExit_auth"
      [] resp.kind \in {"s429_hdr", "s429_nohdr"} -> "continue"
      [] resp.kind = "s429_badhdr" -> "ValueError"
      [] resp.kind = "ok_scalar" -> "ValueError"
      [] resp.kind = "bad_json" -> IF jsonIsReq THEN "RequestException" ELSE "ValueError"
      [] resp.kind \in {"net_err", "http_err"} -> "RequestException"

\* What follows the for loop when it runs out of attempts.
AfterLoop(lastExc) ==
    IF lastExc THEN [state |-> "RequestException", msg |-> "none"]
    ELSE [state |-> "SystemExit", msg |-> "all_retries"]

\* GetStep with the last-attempt test off by one (attempt == retries).
GetStep_OffByOne(a, lastExc, n, resp, jsonIsReq) ==
    LET h == HandlerOf(resp, jsonIsReq)
        lastExc2 == IF h = "RequestException" THEN TRUE ELSE lastExc
        base == [state |-> "running", attempt |-> a, last_exception |-> lastExc2, result |-> "none",
                 msg |-> "none", preDelay |-> BackoffDelay(a), wait |-> 0]
    IN  CASE h = "return" ->
               [base EXCEPT !.state = "returned", !.result = resp.body]
          [] h = "SystemExit_auth" ->
               [base EXCEPT !.state = "SystemExit", !.msg = "auth"]
          [] h = "ValueError" ->
               [base EXCEPT !.state = "SystemExit", !.msg = "invalid"]
          [] h = "RequestException" /\ a = n ->
               [base EXCEPT !.state = "SystemExit", !.msg = "unreachable"]
          [] OTHER ->
               LET w == IF h = "continue" THEN RetryAfterWait(resp, a) ELSE 0
               IN  IF a + 1 < n
                   THEN [base EXCEPT !.state = "running", !.attempt = a + 1, !.wait = w]
                   ELSE [base EXCEPT !.state = AfterLoop(lastExc2).state,
                                     !.msg = AfterLoop(lastExc2).msg,
                                     !.attempt = a + 1, !.wait = w]

\* One iteration of the retry loop of _get, with the code after the loop
\* when this was the last iteration.
GetStep(a, lastExc, n, resp, jsonIsReq) ==
    LET h == HandlerOf(resp, jsonIsReq)
        lastExc2 == IF h = "RequestException" THEN TRUE ELSE lastExc
        base == [state |-> "running", attempt |-> a, last_exception |-> lastExc2, result |-> "none",
                 msg |-> "none", preDelay |-> BackoffDelay(a), wait |-> 0]
    IN  CASE h = "return" ->
               [base EXCEPT !.state = "returned", !.result = resp.body]
          [] h = "SystemExit_auth" ->
               [base EXCEPT !.state = "SystemExit", !.msg = "auth"]
          [] h = "ValueError" ->
               [base EXCEPT !.state = "SystemExit", !.msg = "invalid"]
          [] h = "RequestException" /\ a = n - 1 ->
               [base EXCEPT !.state = "SystemExit", !.msg = "unreachable"]
          [] OTHER ->
               LET w == IF h = "continue" THEN RetryAfterWait(resp, a) ELSE 0
               IN  IF a + 1 < n
                   THEN [base EXCEPT !.state = "running", !.attempt = a + 1, !.wait = w]
                   ELSE [base EXCEPT !.state = AfterLoop(lastExc2).state,
                                     !.msg = AfterLoop(lastExc2).msg,
                                     !.attempt = a + 1, !.wait = w]

-----------------------------------------------------------------------------
(* Provider names are sequences of characters *)

Chars == {"a", "A", "+", " "}

\* str.lower() on one character
Lower(c) == IF c = "A" THEN "a" ELSE c

\* the characters the pattern [^a-z0-9] keeps
IsLowerAlnum(c) == c = "a"

LowerStr(s) == [i \in 1..Len(s) |-> Lower(s[i])]

KeepAlnum(c) == IsLowerAlnum(c)

\* regex.sub(r'[^a-z0-9]', '', (s or '').lower())
_norm(s) == SelectSeq(LowerStr(s), KeepAlnum)

\* str.strip(): drop the spaces at both ends
RECURSIVE Strip(_)
Strip(s) ==
    IF s = << >> THEN s
    ELSE IF Head(s) = " " THEN Strip(Tail(s))
    ELSE IF s[Len(s)] = " " THEN Strip(SubSeq(s, 1, Len(s) - 1))
    ELSE s

Strings(n) == UNION {[1..k -> Chars] : k \in 0..n}

Pids == 1..MaxPid

\* The keys fetch_provider_id_map writes: stripped, non-empty, lowercased.
DirKeys == {s \in Strings(MaxNameLen) : s # << >> /\ Strip(s) = s /\ LowerStr(s) = s}

\* a dict as the sequence of its items in insertion order, keys distinct
IdMaps ==
    {m \in UNION {[1..k -> [name : DirKeys, id : Pids]] : k \in 0..MaxDir} :
        \A i, j \in 1..Len(m) : i # j => m[i].name # m[j].name}

DictValues(m) == {m[i].id : i \in 1..Len(m)}

\* norm_to_pid = { _norm(k): v for k, v in id_map.items() }: a later item
\* with the same normalized key overwrites the earlier one.
NormToPid(m) ==
    LET keys == {_norm(m[i].name) : i \in 1..Len(m)}
        LastIdx(k) == CHOOSE i \in 1..Len(m) :
                          /\ _norm(m[i].name) = k
                          /\ \A j \in 1..Len(m) : _norm(m[j].name) = k => j <= i
    IN  [k \in keys |-> m[LastIdx(k)].id]

resolve_preferred_ids(ns, m) ==
    IF ns = {} THEN DictValues(m)
    ELSE LET norm_to_pid == NormToPid(m)
             wanted == {_norm(x) : x \in ns}
         IN  {norm_to_pid[n] : n \in wanted \cap DOMAIN norm_to_pid}

-----------------------------------------------------------------------------
(* The server's catalog and discover_new_movies *)

MovieIds == 1..MaxMovies

\* The raw discovery record the server holds for movie i: vote_average is in
\* hundredths, odd ids carry genre 1, ids divisible by 3 genres 1 and 2.
CatalogEntry(i) ==
    [id |-> i,
     title |-> ToString(i),
     genre_ids |-> IF i % 3 = 0 THEN <<1, 2>> ELSE IF i % 2 = 1 THEN <<1>> ELSE << >>,
     vote_average |-> IF i % 2 = 1 THEN 801 ELSE 598,
     vote_count |-> IF i % 3 = 1 THEN 100 ELSE 10,
     popularity |-> 45]

Catalog == {CatalogEntry(i) : i \in MovieIds}

PageLists == UNION {[1..k -> Catalog] : k \in 0..MaxPerPage}

NoBody == [type |-> "none"]

ListBody == [type |-> "list"]

\* The decoded body of a discovery page that is an object: its "results"
\* (a list, or something else) and its "total_pages" (an integer, something
\* else, or absent).  An absent "results" reads as the empty list.
PageBodies(n) ==
    {b \in [type : {"dict"}, resultsIsList : BOOLEAN, results : PageLists,
            tpKind : {"int", "notint", "missing"}, total_pages : 0..(n + 1)] :
        /\ (~b.resultsIsList => b.results = << >>)
        /\ (b.tpKind # "int" => b.total_pages = 0)}

\* Every answer requests.get can give to a request whose object bodies are dictBodies.
ResponsesOf(dictBodies) ==
    [kind : Kinds \ (OkKinds \cup {"s429_hdr"}), body : {NoBody}, retryAfter : {0}]
    \cup [kind : {"s429_hdr"}, body : {NoBody}, retryAfter : RetryAfterValues]
    \cup [kind : {"ok_list"}, body : {ListBody}, retryAfter : {0}]
    \cup [kind : {"ok_dict"}, body : dictBodies, retryAfter : {0}]

\* PageOutcome with the last-page test off by one (page > total_pages).
PageOutcome_StrictLastPage(p, s) ==
    CASE s.state = "SystemExit" -> [flow |-> "SystemExit", add |-> << >>]
      [] s.state = "RequestException" -> [flow |-> "continue", add |-> << >>]
      [] s.result.type # "dict" -> [flow |-> "continue", add |-> << >>]
      [] ~s.result.resultsIsList -> [flow |-> "continue", add |-> << >>]
      [] OTHER ->
           LET total_pages == IF s.result.tpKind = "missing" THEN 1 ELSE s.result.total_pages
           IN  IF s.result.tpKind = "notint" THEN [flow |-> "break", add |-> s.result.results]
               ELSE IF p > total_pages THEN [flow |-> "break", add |-> s.result.results]
               ELSE [flow |-> "continue", add |-> s.result.results]

\* PageOutcome where a response of the wrong shape ends the loop.
PageOutcome_MalformedBreaks(p, s) ==
    CASE s.state = "SystemExit" -> [flow |-> "SystemExit", add |-> << >>]
      [] s.state = "RequestException" -> [flow |-> "continue", add |-> << >>]
      [] s.result.type # "dict" -> [flow |-> "break", add |-> << >>]
      [] ~s.result.resultsIsList -> [flow |-> "break", add |-> << >>]
      [] OTHER ->
           LET total_pages == IF s.result.tpKind = "missing" THEN 1 ELSE s.result.total_pages
           IN  IF s.result.tpKind = "notint" THEN [flow |-> "break", add |-> s.result.results]
               ELSE IF p >= total_pages THEN [flow |-> "break", add |-> s.result.results]
               ELSE [flow |-> "continue", add |-> s.result.results]

\* The loop body of discover_new_movies once _get has ended as `s`: what is
\* added to results and whether the loop goes on ("continue"), stops
\* ("break") or the exception leaves the function ("SystemExit").
PageOutcome(p, s) ==
    CASE s.state = "SystemExit" -> [flow |-> "SystemExit", add |-> << >>]
      [] s.state = "RequestException" -> [flow |-> "continue", add |-> << >>]
      [] s.result.type # "dict" -> [flow |-> "continue", add |-> << >>]
      [] ~s.result.resultsIsList -> [flow |-> "continue", add |-> << >>]
      [] OTHER ->
           LET total_pages == IF s.result.tpKind = "missing" THEN 1 ELSE s.result.total_pages
           IN  IF s.result.tpKind = "notint" THEN [flow |-> "break", add |-> s.result.results]
               ELSE IF p >= total_pages THEN [flow |-> "break", add |-> s.result.results]
               ELSE [flow |-> "continue", add |-> s.result.results]

\* The state of discover_new_movies after the page outcome o of page p; the
\* loop variable is gone (0) once the function has returned.
AfterPage(p, n, o) ==
    CASE o.flow = "SystemExit" -> [state |-> "SystemExit", page |-> p]
      [] o.flow = "break" -> [state |-> "returned", page |-> 0]
      [] o.flow = "continue" /\ p + 1 <= n -> [state |-> "running", page |-> p + 1]
      [] OTHER -> [state |-> "returned", page |-> 0]

-----------------------------------------------------------------------------
(* fetch_provider_id_map and fetch_genre_map *)

\* Element i of the "results" list of the server's provider directory;
\* idIsInt is FALSE when "provider_id" is absent or not an integer.  The
\* names normalize to "a", "aa", "aaa", ...; every third element has a blank
\* name and is one the code skips.
ProviderOf(i) ==
    [provider_name |-> IF i % 3 = 0 THEN <<" ">>
                       ELSE IF i = 1 THEN <<"A">>
                       ELSE [k \in 1..(i + 1) |-> IF k = 2 THEN "+" ELSE "a"],
     provider_id |-> i,
     idIsInt |-> TRUE]

\* The directories the server can hold: the first k providers.
Directories == {[i \in 1..k |-> ProviderOf(i)] : k \in 0..MaxDir}

\* The PROVIDERS settings of a run: none, or one name.
RunPreferences == {{}, {<<"a">>}, {<<"+">>}}

\* `if name and isinstance(pid, int)` with name = str(...).strip()
ValidProvider(e) == Strip(e.provider_name) # << >> /\ e.idIsInt

\* d[k] = v on a dict: an existing key keeps its place and takes the new value
DictSet(m, k, v) ==
    IF \E i \in 1..Len(m) : m[i].name = k
    THEN [i \in 1..Len(m) |-> IF m[i].name = k THEN [name |-> k, id |-> v] ELSE m[i]]
    ELSE Append(m, [name |-> k, id |-> v])

\* id_map[name.lower()] = pid over the valid elements, in order
RECURSIVE BuildIdMap(_)
BuildIdMap(entries) ==
    IF entries = << >> THEN << >>
    ELSE LET e == entries[Len(entries)]
             rest == BuildIdMap(SubSeq(entries, 1, Len(entries) - 1))
         IN  IF ValidProvider(e)
             THEN DictSet(rest, LowerStr(Strip(e.provider_name)), e.provider_id)
             ELSE rest

\* name_map[pid] = name over the valid elements: the last one of an id wins
BuildNameMap(entries) ==
    LET valid == {i \in 1..Len(entries) : ValidProvider(entries[i])}
        ids == {entries[i].provider_id : i \in valid}
        LastIdx(pid) == CHOOSE i \in valid :
                            /\ entries[i].provider_id = pid
                            /\ \A j \in valid : entries[j].provider_id = pid => j <= i
    IN  [pid \in ids |-> Strip(entries[LastIdx(pid)].provider_name)]

DirectoryBody(dir) == [type |-> "dict", results |-> dir]

GenreIds == 1..MaxGenres

GenreName(i) == IF i = 1 THEN "Action" ELSE IF i = 2 THEN "Drama" ELSE "Comedy"

\* The genre lists the server can hold: the first k genres, at least one.
GenreLists == {[i \in 1..k |-> [id |-> i, name |-> GenreName(i)]] : k \in 1..MaxGenres}

\* { g["id"]: g["name"] for g in data.get("genres", []) ... }
BuildGenreMap(genres) ==
    [i \in {genres[k].id : k \in 1..Len(genres)} |->
        (genres[CHOOSE k \in 1..Len(genres) :
                    /\ genres[k].id = i
                    /\ \A j \in 1..Len(genres) : genres[j].id = i => j <= k]).name]

GenreBody(genres) == [type |-> "dict", genres |-> genres]

-----------------------------------------------------------------------------
(* get_watch_providers, pick_flatrate_providers, get_imdb_id *)

\* the names a "flatrate" provider can carry: empty, blank, two proper ones
PayloadNames == {<< >>, <<" ">>, <<"a">>, <<"A">>}

\* the "flatrate" section: absent or empty, or one provider
FlatrateLists == {<< >>} \cup {<<e>> : e \in [provider_id : Pids, provider_name : PayloadNames]}

\* the "ads" section: absent or empty, or one provider named "A"
AdsLists == {<< >>} \cup {<<[provider_id |-> q, provider_name |-> <<"A">>]>> : q \in Pids}

\* a section the code does not read: absent, or one provider named "a"
OtherLists == {<< >>} \cup {<<[provider_id |-> q, provider_name |-> <<"a">>]>> : q \in Pids}

\* results[COUNTRY]: the sections the code reads and one it does not
Payloads == [flatrate : FlatrateLists, ads : AdsLists, rent : OtherLists]

EmptyPayload == [flatrate |-> << >>, ads |-> << >>, rent |-> << >>]

\* The decoded body of a watch-providers response that is an object.
WatchBodies ==
    [type : {"dict"}, shape : {"ok"}, country : Payloads]
    \cup [type : {"dict"}, shape : {"results_not_dict", "country_not_dict"},
          country : {EmptyPayload}]

\* get_watch_providers once _get has ended as `s`: the dict it returns, or
\* the SystemExit that leaves it.
WatchOutcome(s) ==
    CASE s.state = "SystemExit" -> [flow |-> "SystemExit", wp |-> EmptyPayload]
      [] s.state = "RequestException" -> [flow |-> "return", wp |-> EmptyPayload]
      [] s.result.type # "dict" -> [flow |-> "return", wp |-> EmptyPayload]
      [] s.result.shape # "ok" -> [flow |-> "return", wp |-> EmptyPayload]
      [] OTHER -> [flow |-> "return", wp |-> s.result.country]

\* ord() of the characters in use
Code(c) ==
    CASE c = " " -> 32
      [] c = "+" -> 43
      [] c = "," -> 44
      [] c = "A" -> 65
      [] c = "a" -> 97

\* s < t on Python strings
RECURSIVE StrLess(_, _)
StrLess(s, t) ==
    IF t = << >> THEN FALSE
    ELSE IF s = << >> THEN TRUE
    ELSE IF Head(s) # Head(t) THEN Code(Head(s)) < Code(Head(t))
    ELSE StrLess(Tail(s), Tail(t))

\* sorted(set(...)) on strings
RECURSIVE SortedStrings(_)
SortedStrings(S) ==
    IF S = {} THEN << >>
    ELSE LET least == CHOOSE x \in S : \A y \in S : y = x \/ StrLess(x, y)
         IN  <<least>> \o SortedStrings(S \ {least})

\* the names one section contributes to `picked`
PickedOf(section, allowed) ==
    {Strip(section[i].provider_name) : i \in
        {j \in 1..Len(section) :
            /\ section[j].provider_id \in allowed
            /\ Strip(section[j].provider_name) # << >>}}

\* pick_flatrate_providers reading every section of the payload.
pick_flatrate_providers_AnySection(provider_section, allowed) ==
    SortedStrings(PickedOf(provider_section.flatrate, allowed)
                  \cup PickedOf(provider_section.ads, allowed)
                  \cup PickedOf(provider_section.rent, allowed))

pick_flatrate_providers(provider_section, allowed) ==
    SortedStrings(PickedOf(provider_section.flatrate, allowed)
                  \cup PickedOf(provider_section.ads, allowed))

\* ", ".join(providers)
RECURSIVE Join(_)
Join(seq) ==
    IF seq = << >> THEN << >>
    ELSE IF Len(seq) = 1 THEN seq[1]
    ELSE seq[1] \o <<",", " ">> \o Join(Tail(seq))

ImdbIds == {"tt1"}

\* The decoded body of an external-ids response that is an object; hasId is
\* FALSE when "imdb_id" is absent, null or empty.
ImdbBodies == [type : {"dict"}, hasId : BOOLEAN, imdb_id : ImdbIds]

\* get_imdb_id once _get has ended as `s`; no id is the empty sequence
ImdbOutcome(s) ==
    CASE s.state = "SystemExit" -> [flow |-> "SystemExit", imdb_id |-> << >>]
      [] s.state = "RequestException" -> [flow |-> "return", imdb_id |-> << >>]
      [] s.result.type # "dict" -> [flow |-> "return", imdb_id |-> << >>]
      [] ~s.result.hasId -> [flow |-> "return", imdb_id |-> << >>]
      [] OTHER -> [flow |-> "return", imdb_id |-> <<s.result.imdb_id>>]

-----------------------------------------------------------------------------
(* rank_score, grouping and sorting *)

Max(a, b) == IF a > b THEN a ELSE b

\* The score as the fraction num / (1000 * den): rating in tenths,
\* 0.7 * bayes + 0.3 * min(10, P / 100) over the common denominator.
rank_score(vote_average, vote_count, popularity) ==
    LET v == Max(0, vote_count)
        R == Max(0, Min(100, vote_average))
        P == Max(0, popularity)
    IN  [num |-> 70 * (v * R + PriorVotes * PriorMean) + 3 * Min(1000, P) * (v + PriorVotes),
         den |-> v + PriorVotes]

ScoreOf(x) == rank_score(x.rating, x.votes, x.popularity)

\* rank_score(a) >= rank_score(b)
ScoreGeq(a, b) == ScoreOf(a).num * ScoreOf(b).den >= ScoreOf(b).num * ScoreOf(a).den

\* InsertByScore placing x ahead of the elements that score the same.
InsertByScore_AheadOfEquals(sorted, x) ==
    LET ahead == {i \in 1..Len(sorted) : ~ScoreGeq(x, sorted[i])}
        k == IF ahead = {} THEN 0 ELSE CHOOSE i \in ahead : \A j \in ahead : j <= i
    IN  SubSeq(sorted, 1, k) \o <<x>> \o SubSeq(sorted, k + 1, Len(sorted))

\* x placed behind every element that does not score lower than it
InsertByScore(sorted, x) ==
    LET ahead == {i \in 1..Len(sorted) : ScoreGeq(sorted[i], x)}
        k == IF ahead = {} THEN 0 ELSE CHOOSE i \in ahead : \A j \in ahead : j <= i
    IN  SubSeq(sorted, 1, k) \o <<x>> \o SubSeq(sorted, k + 1, Len(sorted))

\* list.sort(key=rank_score, reverse=True): descending and stable
RECURSIVE SortByScore(_)
SortByScore(seq) ==
    IF seq = << >> THEN << >>
    ELSE InsertByScore(SortByScore(SubSeq(seq, 1, Len(seq) - 1)), seq[Len(seq)])

\* how many times g occurs in a genres list
RECURSIVE CountIn(_, _)
CountIn(gs, g) ==
    IF gs = << >> THEN 0
    ELSE (IF Head(gs) = g THEN 1 ELSE 0) + CountIn(Tail(gs), g)

\* x repeated n times
Repeat(x, n) == [i \in 1..n |-> x]

\* by_genre.setdefault(g, []).append(mv) for every movie and every g of its genres
RECURSIVE BucketOf(_, _)
BucketOf(ms, g) ==
    IF ms = << >> THEN << >>
    ELSE BucketOf(SubSeq(ms, 1, Len(ms) - 1), g)
         \o Repeat(ms[Len(ms)], CountIn(ms[Len(ms)].genres, g))

GenresOf(ms) == UNION {{ms[i].genres[k] : k \in 1..Len(ms[i].genres)} : i \in 1..Len(ms)}

\* by_genre[g] = by_genre[g][:MAX_RESULTS_PER_GENRE] when the cap is positive
Capped(bucket, cap) ==
    IF cap > 0 THEN SubSeq(bucket, 1, Min(cap, Len(bucket))) ELSE bucket

\* lines 451-455 of main: one bucket per genre name met, filled in the
\* order of `movies`
Grouped(ms) == [g \in GenresOf(ms) |-> BucketOf(ms, g)]

\* load_movies, lines 132-137: the "All" bucket is `movies`, then one bucket
\* per genre name met
GuiGrouped(ms) ==
    [g \in {"All"} \cup GenresOf(ms) |-> IF g = "All" THEN ms ELSE BucketOf(ms, g)]

\* load_movies, lines 140-144: every bucket sorted, none capped
GuiSorted(buckets) == [g \in DOMAIN buckets |-> SortByScore(buckets[g])]

\* lines 451-464 of main: group, sort each bucket, cap it
GroupSortCap(ms, cap) ==
    [g \in GenresOf(ms) |-> Capped(SortByScore(BucketOf(ms, g)), cap)]

\* round(vote_average, 1), from hundredths to tenths
Round1(h) == (h + 5) \div 10

\* [genre_map[g] for g in genre_ids if g in genre_map] or ["Uncategorized"]
ResolveGenres(genre_ids, gm) ==
    LET known(g) == g \in DOMAIN gm
        kept == SelectSeq(genre_ids, known)
    IN  IF kept = << >> THEN <<"Uncategorized">>
        ELSE [i \in 1..Len(kept) |-> gm[kept[i]]]

\* the dict main appends for candidate m; src is history, the position of
\* the candidate the movie was built from
BuildMovie(m, provs, imdb_id, gm, i) ==
    [title |-> m.title,
     rating |-> Round1(m.vote_average),
     votes |-> m.vote_count,
     popularity |-> m.popularity,
     providers |-> Join(provs),
     imdb_link |-> IF imdb_id = << >> THEN << >>
                   ELSE <<"https://www.imdb.com/title/">> \o imdb_id \o <<"/">>,
     genres |-> ResolveGenres(m.genre_ids, gm),
     src |-> i]

\* main, lines 420-423, without the fallback to every provider.
AllowedIds_NoFallback(wanted, idm, idn) == resolve_preferred_ids(wanted, idm)

\* main, lines 420-423: the resolved ids, or every id of the directory when
\* nothing was resolved.
AllowedIds(wanted, idm, idn) ==
    LET a == resolve_preferred_ids(wanted, idm)
    IN  IF a = {} THEN DOMAIN idn ELSE a

ResolveIdle ==
    /\ names = {}
    /\ id_map = << >>
    /\ matched = {}
    /\ resolveState = "idle"

DiscIdle ==
    /\ pages = 0
    /\ page = 0
    /\ results = << >>
    /\ discState = "idle"
    /\ pageLog = << >>

MainIdle ==
    /\ PREFERRED_PROVIDER_NAMES = {}
    /\ MAX_RESULTS_PER_GENRE = 0
    /\ serverDirectory = << >>
    /\ serverGenres = << >>
    /\ id_to_name = << >>
    /\ allowed_ids = {}
    /\ genre_map = << >>
    /\ idx = 0
    /\ movies = << >>
    /\ providers = << >>
    /\ by_genre = << >>
    /\ pc = "idle"
    /\ runState = "idle"
    /\ runMsg = "none"
    /\ saw401 = FALSE
    /\ qualifiedLog = << >>
    /\ callLog = << >>

GuiIdle ==
    /\ frontend = "cli"
    /\ movies_by_genre = << >>
    /\ clock = << >>
    /\ status_label = "none"
    /\ genre_chips = {}
    /\ uiLog = << >>

\* no record enriched yet
NotEnriched == [exc |-> "pending", rating |-> 0, votes |-> 0, popularity |-> 0]

EnrichIdle ==
    /\ candidate = "none"
    /\ enriched = NotEnriched

\* rank_score not called
NotScored == [tenths |-> 0, ulps |-> 0, vote_count |-> 0, popularity |-> 0]

RankIdle ==
    /\ scored = NotScored
    /\ scoreLog = << >>

GetIdle ==
    /\ retries = DefaultRetries
    /\ attempt = 0
    /\ last_exception = FALSE
    /\ getState = "idle"
    /\ getMsg = "none"
    /\ getResult = "none"
    /\ getLog = << >>

-----------------------------------------------------------------------------
(* _get on its own: any number of retries, any sequence of responses *)

GetInit ==
    /\ retries \in 0..MaxRetries
    /\ attempt = 0
    /\ last_exception = FALSE
    /\ getState = "idle"
    /\ getMsg = "none"
    /\ getResult = "none"
    /\ getLog = << >>
    /\ jsonErrIsRequestException \in BOOLEAN
    /\ ResolveIdle
    /\ DiscIdle
    /\ MainIdle
    /\ GuiIdle
    /\ EnrichIdle
    /\ RankIdle

\* Entering _get: last_exception = None, then the for loop (empty when retries = 0).
GetCall ==
    /\ getState = "idle"
    /\ last_exception' = FALSE
    /\ attempt' = 0
    /\ getLog' = << >>
    /\ getResult' = "none"
    /\ IF retries > 0
       THEN getState' = "running" /\ getMsg' = "none"
       ELSE getState' = AfterLoop(FALSE).state /\ getMsg' = AfterLoop(FALSE).msg
    /\ UNCHANGED <<guiVars, enrichVars, rankVars, retries, jsonErrIsRequestException, resolveVars, discVars,
                   configVars, mainVars>>

\* One request of the loop and everything _get does with its response.
GetAttempt ==
    /\ getState = "running"
    /\ \E resp \in Responses :
         LET s == GetStep(attempt, last_exception, retries, resp, jsonErrIsRequestException)
         IN  /\ attempt' = s.attempt
             /\ last_exception' = s.last_exception
             /\ getState' = s.state
             /\ getMsg' = s.msg
             /\ getResult' = s.result
             /\ getLog' = Append(getLog, [kind |-> resp.kind, body |-> resp.body,
                                          attempt |-> attempt,
                                          preDelay |-> s.preDelay, wait |-> s.wait])
    /\ UNCHANGED <<guiVars, enrichVars, rankVars, retries, jsonErrIsRequestException, resolveVars, discVars,
                   configVars, mainVars>>

GetNext == GetCall \/ GetAttempt

SpecGet == GetInit /\ [][GetNext]_vars

GetEnded == getState \in {"returned", "SystemExit", "RequestException"}

GetFailed == getState \in {"SystemExit", "RequestException"}

LastOfLog == getLog[Len(getLog)]

\* C2 (as stated): with retries >= 1, a 429 response is always followed by
\* another request attempt and never makes _get fail, so a call of _get that
\* has failed did not receive a 429 as its last response.
C2_RateLimitAlwaysRetried ==
    (retries >= 1 /\ GetFailed /\ Len(getLog) > 0) => LastOfLog.kind \notin Kinds429

C4_MalformedBodyNotRetried ==
    \A i \in 1..Len(getLog) :
        getLog[i].kind \in {"bad_json", "ok_scalar"} =>
            (i = Len(getLog) /\ getState = "SystemExit")

-----------------------------------------------------------------------------
(* resolve_preferred_ids on its own: any directory, any wanted names *)

\* PREFERRED_PROVIDER_NAMES holds stripped, non-empty names.
WantedNames == {s \in Strings(MaxNameLen) : s # << >> /\ Strip(s) = s}

WantedSets == {w \in SUBSET WantedNames : Cardinality(w) <= MaxWanted}

ResolveInit ==
    /\ GetIdle
    /\ jsonErrIsRequestException = TRUE
    /\ names \in WantedSets
    /\ id_map \in IdMaps
    /\ matched = {}
    /\ resolveState = "idle"
    /\ DiscIdle
    /\ MainIdle
    /\ GuiIdle
    /\ EnrichIdle
    /\ RankIdle

Resolve ==
    /\ resolveState = "idle"
    /\ matched' = resolve_preferred_ids(names, id_map)
    /\ resolveState' = "returned"
    /\ UNCHANGED <<guiVars, enrichVars, rankVars, names, id_map, getVars, jsonErrIsRequestException, discVars,
                   configVars, mainVars>>

ResolveNext == Resolve

SpecResolve == ResolveInit /\ [][ResolveNext]_vars

\* C8 (as stated): the result is every id of id_map when names is empty, and
\* otherwise exactly the ids of the directory providers whose normalized name
\* equals the normalized form of some wanted name.
C8_ResolveExactMatches ==
    (resolveState = "returned") =>
        matched = IF names = {} THEN {id_map[i].id : i \in 1..Len(id_map)}
                  ELSE {id_map[i].id : i \in
                          {j \in 1..Len(id_map) :
                              \E x \in names : _norm(x) = _norm(id_map[j].name)}}

-----------------------------------------------------------------------------
(* discover_new_movies on its own: any page cap, any sequence of responses *)

DiscoverInit ==
    /\ GetIdle
    /\ jsonErrIsRequestException \in BOOLEAN
    /\ ResolveIdle
    /\ MainIdle
    /\ pages \in 0..MaxPages
    /\ page = 0
    /\ results = << >>
    /\ discState = "idle"
    /\ pageLog = << >>
    /\ GuiIdle
    /\ EnrichIdle
    /\ RankIdle

\* Entering discover_new_movies: results = [], then the for loop.
DiscoverCall ==
    /\ discState = "idle"
    /\ results' = << >>
    /\ pageLog' = << >>
    /\ attempt' = 0
    /\ last_exception' = FALSE
    /\ IF pages >= 1
       THEN discState' = "running" /\ page' = 1
       ELSE discState' = "returned" /\ page' = 0
    /\ UNCHANGED <<guiVars, enrichVars, rankVars, pages, retries, getState, getMsg, getResult, getLog,
                   jsonErrIsRequestException, resolveVars, configVars, mainVars>>

\* One request for the current page; when it ends the _get call, the rest of
\* the loop body and the move to the next page or out of the function.
DiscoverAttempt ==
    /\ discState = "running"
    /\ \E resp \in ResponsesOf(PageBodies(pages)) :
         LET s == GetStep(attempt, last_exception, DefaultRetries, resp, jsonErrIsRequestException)
             o == PageOutcome(page, s)
             nxt == AfterPage(page, pages, o)
             entry == [page |-> page, ended |-> s.state, body |-> s.result]
             log == IF attempt = 0 THEN Append(pageLog, entry)
                    ELSE [pageLog EXCEPT ![Len(pageLog)] = entry]
         IN  /\ pageLog' = log
             /\ IF s.state = "running"
                THEN /\ attempt' = s.attempt
                     /\ last_exception' = s.last_exception
                     /\ UNCHANGED <<page, results, discState>>
                ELSE /\ attempt' = 0
                     /\ last_exception' = FALSE
                     /\ results' = results \o o.add
                     /\ page' = nxt.page
                     /\ discState' = nxt.state
    /\ UNCHANGED <<guiVars, enrichVars, rankVars, pages, retries, getState, getMsg, getResult, getLog,
                   jsonErrIsRequestException, resolveVars, configVars, mainVars>>

DiscoverNext == DiscoverCall \/ DiscoverAttempt

SpecDiscover == DiscoverInit /\ [][DiscoverNext]_vars

\* the response of a logged page is an object whose results field is a list
WellFormedPage(e) ==
    e.ended = "returned" /\ e.body.type = "dict" /\ e.body.resultsIsList

\* the response of a logged page is an object that reports total_pages <= page
ReportsLastPage(e) ==
    /\ e.ended = "returned"
    /\ e.body.type = "dict"
    /\ e.body.tpKind = "int"
    /\ e.body.total_pages <= e.page

PagesAscending ==
    /\ Len(pageLog) <= pages
    /\ \A i \in 1..Len(pageLog) : pageLog[i].page = i

\* C6 (as stated): pages are requested in the order 1, 2, ..., at most
\* `pages` of them, and no page is requested after a page whose response
\* reports total_pages <= its number.
C6_StopsAtReportedLastPage ==
    /\ PagesAscending
    /\ \A i \in 1..Len(pageLog) : ReportsLastPage(pageLog[i]) => i = Len(pageLog)

\* C6 (amended): pages are requested in the order 1, 2, ..., at most `pages`
\* of them, and no page is requested after a page whose response is
\* well-formed (an object whose results field is a list) and reports
\* total_pages <= its number; after such a page discovery has returned.
C6_StopsAtWellFormedLastPage ==
    /\ PagesAscending
    /\ \A i \in 1..Len(pageLog) :
          (WellFormedPage(pageLog[i]) /\ ReportsLastPage(pageLog[i])) =>
              (i = Len(pageLog) /\ discState = "returned")

C6_Witness ==
    /\ pages = MaxPages
    /\ MaxPages >= 2
    /\ Len(pageLog) = 1
    /\ WellFormedPage(pageLog[1])
    /\ ReportsLastPage(pageLog[1])
    /\ discState = "returned"

RECURSIVE ConcatWellFormed(_)
ConcatWellFormed(log) ==
    IF log = << >> THEN << >>
    ELSE LET e == log[Len(log)]
             rest == ConcatWellFormed(SubSeq(log, 1, Len(log) - 1))
         IN  IF WellFormedPage(e) THEN rest \o e.body.results ELSE rest

-----------------------------------------------------------------------------
(* The command-line run: main() under `if __name__ == "__main__"` *)

Init ==
    /\ GetIdle
    /\ jsonErrIsRequestException \in BOOLEAN
    /\ ResolveIdle
    /\ DiscIdle
    /\ PREFERRED_PROVIDER_NAMES \in RunPreferences
    /\ MAX_RESULTS_PER_GENRE \in 0..MaxCap
    /\ serverDirectory \in Directories
    /\ serverGenres \in GenreLists
    /\ id_to_name = << >>
    /\ allowed_ids = {}
    /\ genre_map = << >>
    /\ idx = 0
    /\ movies = << >>
    /\ providers = << >>
    /\ by_genre = << >>
    /\ pc = "providers"
    /\ runState = "running"
    /\ runMsg = "none"
    /\ saw401 = FALSE
    /\ qualifiedLog = << >>
    /\ callLog = << >>
    /\ GuiIdle
    /\ EnrichIdle
    /\ RankIdle

ProviderResponses(dir) == ResponsesOf({DirectoryBody(dir)})

GenreResponses(genres) == ResponsesOf({GenreBody(genres)})

PageResponses == ResponsesOf(PageBodies(RunPages))

WatchResponses == ResponsesOf(WatchBodies)

ImdbResponses == ResponsesOf(ImdbBodies)

\* what the request just answered leaves of the _get call in progress
CallGoesOn(s) ==
    /\ attempt' = IF s.state = "running" THEN s.attempt ELSE 0
    /\ last_exception' = IF s.state = "running" THEN s.last_exception ELSE FALSE

\* the run's state when the _get call ended as `s` inside a function that
\* lets `uncaught` propagate to the top level
RunAfter(s, uncaught) ==
    CASE s.state = "SystemExit" -> [state |-> "SystemExit", msg |-> s.msg]
      [] s.state = "RequestException" /\ uncaught -> [state |-> "failed", msg |-> "network"]
      [] s.state = "returned" /\ uncaught /\ s.result.type # "dict" ->
           [state |-> "failed", msg |-> "traceback"]
      [] OTHER -> [state |-> "running", msg |-> "none"]

\* history: the log with the call entered, when this request is its first;
\* a run of consecutive discovery pages is entered once, under its first page
Called(log, a, call, arg) ==
    IF a # 0 THEN log
    ELSE IF call = "page" /\ log # << >> /\ log[Len(log)].call = "page" THEN log
    ELSE Append(log, [call |-> call, arg |-> arg])

\* where the loop over candidates goes after candidate i
NextCandidate(i, n) ==
    IF i + 1 <= n THEN [pc |-> "watch", idx |-> i + 1] ELSE [pc |-> "finish", idx |-> i]

\* One request of fetch_provider_id_map; when the call returns, the two maps,
\* resolve_preferred_ids and the fallback.
FetchProviders ==
    /\ runState = "running"
    /\ pc = "providers"
    /\ \E resp \in ProviderResponses(serverDirectory) :
         LET s == GetStep(attempt, last_exception, DefaultRetries, resp, jsonErrIsRequestException)
             r == RunAfter(s, TRUE)
             ok == s.state = "returned" /\ r.state = "running"
             idm == BuildIdMap(s.result.results)
             idn == BuildNameMap(s.result.results)
         IN  /\ CallGoesOn(s)
             /\ callLog' = Called(callLog, attempt, "providers", 0)
             /\ saw401' = (saw401 \/ resp.kind = "s401")
             /\ runState' = r.state
             /\ runMsg' = r.msg
             /\ id_map' = IF ok THEN idm ELSE id_map
             /\ id_to_name' = IF ok THEN idn ELSE id_to_name
             /\ allowed_ids' = IF ~ok THEN allowed_ids
                               ELSE IF frontend = "gui" THEN DOMAIN idn
                               ELSE AllowedIds(PREFERRED_PROVIDER_NAMES, idm, idn)
             /\ pc' = IF ok THEN "genres" ELSE pc
    /\ UNCHANGED <<guiVars, enrichVars, rankVars, retries, getState, getMsg, getResult, getLog, jsonErrIsRequestException,
                   names, matched, resolveState, discVars, configVars,
                   genre_map, idx, movies, providers, by_genre, qualifiedLog>>

\* One request of fetch_genre_map; when the call returns, genre_map and the
\* entry into discover_new_movies.
FetchGenres ==
    /\ runState = "running"
    /\ pc = "genres"
    /\ \E resp \in GenreResponses(serverGenres) :
         LET s == GetStep(attempt, last_exception, DefaultRetries, resp, jsonErrIsRequestException)
             r == RunAfter(s, TRUE)
             ok == s.state = "returned" /\ r.state = "running"
         IN  /\ CallGoesOn(s)
             /\ callLog' = Called(callLog, attempt, "genres", 0)
             /\ saw401' = (saw401 \/ resp.kind = "s401")
             /\ runState' = r.state
             /\ runMsg' = r.msg
             /\ genre_map' = IF ok THEN BuildGenreMap(s.result.genres) ELSE genre_map
             /\ pc' = IF ok THEN "discover" ELSE pc
             /\ pages' = IF ok THEN RunPages ELSE pages
             /\ page' = IF ok THEN 1 ELSE page
             /\ discState' = IF ok THEN "running" ELSE discState
    /\ UNCHANGED <<guiVars, enrichVars, rankVars, retries, getState, getMsg, getResult, getLog, jsonErrIsRequestException,
                   resolveVars, results, pageLog, configVars,
                   id_to_name, allowed_ids, idx, movies, providers, by_genre, qualifiedLog>>

\* One request of discover_new_movies for the current page; when discovery
\* returns, the entry into the loop over candidates.
Discover ==
    /\ runState = "running"
    /\ pc = "discover"
    /\ \E resp \in PageResponses :
         LET s == GetStep(attempt, last_exception, DefaultRetries, resp, jsonErrIsRequestException)
             r == RunAfter(s, FALSE)
             o == PageOutcome(page, s)
             nxt == AfterPage(page, pages, o)
             ended == s.state # "running"
             found == IF ended THEN results \o o.add ELSE results
         IN  /\ Len(found) <= MaxCandidates
             /\ CallGoesOn(s)
             /\ callLog' = Called(callLog, attempt, "page", page)
             /\ saw401' = (saw401 \/ resp.kind = "s401")
             /\ runState' = r.state
             /\ runMsg' = r.msg
             /\ results' = IF ended THEN found ELSE results
             /\ page' = IF ended THEN nxt.page ELSE page
             /\ discState' = IF ended THEN nxt.state ELSE discState
             /\ pc' = IF ended /\ nxt.state = "returned"
                      THEN NextCandidate(0, Len(found)).pc ELSE pc
             /\ idx' = IF ended /\ nxt.state = "returned"
                       THEN NextCandidate(0, Len(found)).idx ELSE idx
    /\ UNCHANGED <<guiVars, enrichVars, rankVars, retries, getState, getMsg, getResult, getLog, jsonErrIsRequestException,
                   resolveVars, pages, pageLog, configVars,
                   id_to_name, allowed_ids, genre_map, movies, providers, by_genre,
                   qualifiedLog>>

\* AfterWatch without the `if not providers: continue` of lines 432-433.
AfterWatch_NoSkip(picked, i, n) == [pc |-> "imdb", idx |-> i]

\* lines 432-435: a candidate without providers is skipped, the others go
\* on to get_imdb_id
AfterWatch(picked, i, n) ==
    IF picked = << >> THEN NextCandidate(i, n) ELSE [pc |-> "imdb", idx |-> i]

\* the providers of the allowed set the payload lists under "flatrate" or "ads"
AllowedEntries(wp, allowed) ==
    {e \in {wp.flatrate[i] : i \in 1..Len(wp.flatrate)} \cup {wp.ads[i] : i \in 1..Len(wp.ads)} :
        e.provider_id \in allowed}

\* history: one of them has a non-empty name; one has a name that is not blank
QualifiedEntry(wp, allowed) ==
    [nonEmpty |-> \E e \in AllowedEntries(wp, allowed) : e.provider_name # << >>,
     nonBlank |-> \E e \in AllowedEntries(wp, allowed) : Strip(e.provider_name) # << >>]

\* One request of get_watch_providers for the current candidate; when the
\* call returns, pick_flatrate_providers and the `if not providers: continue`.
WatchProviders ==
    /\ runState = "running"
    /\ pc = "watch"
    /\ \E resp \in WatchResponses :
         LET s == GetStep(attempt, last_exception, DefaultRetries, resp, jsonErrIsRequestException)
             r == RunAfter(s, FALSE)
             o == WatchOutcome(s)
             picked == pick_flatrate_providers(o.wp, allowed_ids)
             returned == s.state # "running" /\ o.flow = "return"
             nxt == AfterWatch(picked, idx, Len(results))
         IN  /\ CallGoesOn(s)
             /\ callLog' = Called(callLog, attempt, "watch", idx)
             /\ saw401' = (saw401 \/ resp.kind = "s401")
             /\ runState' = r.state
             /\ runMsg' = r.msg
             /\ providers' = IF returned THEN picked ELSE providers
             /\ pc' = IF returned THEN nxt.pc ELSE pc
             /\ idx' = IF returned THEN nxt.idx ELSE idx
             /\ qualifiedLog' =
                  IF returned
                  THEN Append(qualifiedLog, QualifiedEntry(o.wp, allowed_ids))
                  ELSE qualifiedLog
    /\ UNCHANGED <<guiVars, enrichVars, rankVars, retries, getState, getMsg, getResult, getLog, jsonErrIsRequestException,
                   resolveVars, discVars, configVars,
                   id_to_name, allowed_ids, genre_map, movies, by_genre>>

\* One request of get_imdb_id for the current candidate; when the call
\* returns, the movie is built and appended.
ImdbId ==
    /\ runState = "running"
    /\ pc = "imdb"
    /\ \E resp \in ImdbResponses :
         LET s == GetStep(attempt, last_exception, DefaultRetries, resp, jsonErrIsRequestException)
             r == RunAfter(s, FALSE)
             o == ImdbOutcome(s)
             returned == s.state # "running" /\ o.flow = "return"
             nxt == NextCandidate(idx, Len(results))
         IN  /\ CallGoesOn(s)
             /\ callLog' = Called(callLog, attempt, "imdb", idx)
             /\ saw401' = (saw401 \/ resp.kind = "s401")
             /\ runState' = r.state
             /\ runMsg' = r.msg
             /\ movies' = IF returned
                          THEN Append(movies, BuildMovie(results[idx], providers, o.imdb_id,
                                                         genre_map, idx))
                          ELSE movies
             /\ pc' = IF returned THEN nxt.pc ELSE pc
             /\ idx' = IF returned THEN nxt.idx ELSE idx
    /\ UNCHANGED <<guiVars, enrichVars, rankVars, retries, getState, getMsg, getResult, getLog, jsonErrIsRequestException,
                   resolveVars, discVars, configVars,
                   id_to_name, allowed_ids, genre_map, providers, by_genre, qualifiedLog>>

\* main from line 451 on: the buckets, their order and cap; the report is
\* written from by_genre.
Finish ==
    /\ frontend = "cli"
    /\ runState = "running"
    /\ pc = "finish"
    /\ by_genre' = GroupSortCap(movies, MAX_RESULTS_PER_GENRE)
    /\ runState' = "done"
    /\ UNCHANGED <<guiVars, enrichVars, rankVars, getVars, jsonErrIsRequestException, resolveVars, discVars, configVars,
                   id_to_name, allowed_ids, genre_map, idx, movies, providers,
                   pc, runMsg, saw401, qualifiedLog, callLog>>

Next ==
    \/ FetchProviders
    \/ FetchGenres
    \/ Discover
    \/ WatchProviders
    \/ ImdbId
    \/ Finish

Spec == Init /\ [][Next]_vars

\* the provider names of a movie of the output, split back at ", "
RECURSIVE SplitJoined(_)
SplitJoined(str) ==
    IF str = << >> THEN << >>
    ELSE LET cut == {i \in 1..(Len(str) - 1) : str[i] = "," /\ str[i + 1] = " "}
         IN  IF cut = {} THEN <<str>>
             ELSE LET c == CHOOSE i \in cut : \A j \in cut : i <= j
                  IN  <<SubSeq(str, 1, c - 1)>> \o SplitJoined(SubSeq(str, c + 2, Len(str)))

\* the positions, among the candidates, of the movies in some bucket
OutputSources ==
    UNION {{by_genre[g][k].src : k \in 1..Len(by_genre[g])} : g \in DOMAIN by_genre}

OutputMovies ==
    UNION {{by_genre[g][k] : k \in 1..Len(by_genre[g])} : g \in DOMAIN by_genre}

\* non-empty, free of duplicates and in ascending order
StrictlySorted(seq) ==
    /\ seq # << >>
    /\ \A i \in 1..(Len(seq) - 1) : StrLess(seq[i], seq[i + 1])

ProviderListsSorted ==
    \A mv \in OutputMovies : StrictlySorted(SplitJoined(mv.providers))

\* C1: once a request of the run has been answered 401, the run has ended
\* with the authentication SystemExit, whichever call made the request, it
\* has produced no grouped result, and it takes no further step.
C1_AuthFailureEndsRun ==
    /\ [](saw401 => (runState = "SystemExit" /\ runMsg = "auth" /\ by_genre = << >>))
    /\ [][~saw401]_vars

C1_Witness ==
    /\ saw401
    /\ pc = "watch"
    /\ idx = 2
    /\ runState = "SystemExit"

\* C5 (as stated): a failure of a per-movie fetch other than a 401 never
\* ends the run, so a run that ended during a watch-providers or external-id
\* request received a 401.
C5_PerMovieFailureContained ==
    (pc \in {"watch", "imdb"} /\ runState \in {"SystemExit", "failed"}) => saw401

\* some wanted name and some provider of the directory normalize alike
SomeNameMatches ==
    \E x \in PREFERRED_PROVIDER_NAMES :
        \E q \in DOMAIN id_to_name : _norm(x) = _norm(id_to_name[q])

\* C9: once the directory is fetched, when the configured names are not
\* empty and none matches a provider of the directory, the allowed set is the
\* set of all provider ids of the directory, through enrichment to the end.
C9_FallbackAllowsAll ==
    (pc # "providers" /\ PREFERRED_PROVIDER_NAMES # {} /\ ~SomeNameMatches) =>
        allowed_ids = DOMAIN id_to_name

C9_Witness ==
    /\ pc = "imdb"
    /\ PREFERRED_PROVIDER_NAMES # {}
    /\ ~SomeNameMatches
    /\ Cardinality(allowed_ids) = 2
    /\ allowed_ids = DOMAIN id_to_name

MaxGroupMovies == 3         \* movies given to the grouping stage

\* the genre_ids lists of the candidates, with a repeated id among them
GroupGenreIds == {<< >>, <<1>>, <<2>>, <<1, 1>>, <<1, 2>>}

\* candidates differing in genres and in score
GroupCandidates ==
    {[id |-> 1, title |-> "1", genre_ids |-> gs, vote_average |-> va,
      vote_count |-> 100, popularity |-> 45] :
        gs \in GroupGenreIds, va \in {801, 598}}

\* genre maps: empty, one genre, two genres, two ids of the same name
GroupGenreMaps ==
    {<< >>, <<"Action">>, <<"Action", "Drama">>, <<"Action", "Action">>}

\* the movies main builds from the candidates cs, all of them qualifying
EnrichedFrom(cs, gm) ==
    [i \in 1..Len(cs) |-> BuildMovie(cs[i], <<<<"A">>>>, << >>, gm, i)]

GroupInit ==
    /\ GetIdle
    /\ jsonErrIsRequestException = TRUE
    /\ ResolveIdle
    /\ DiscIdle
    /\ EnrichIdle
    /\ RankIdle
    /\ PREFERRED_PROVIDER_NAMES = {}
    /\ MAX_RESULTS_PER_GENRE \in 0..MaxCap
    /\ serverDirectory = << >>
    /\ serverGenres = << >>
    /\ id_to_name = << >>
    /\ allowed_ids = {}
    /\ genre_map \in GroupGenreMaps
    /\ idx = 0
    /\ \E k \in 0..MaxGroupMovies :
          \E cs \in [1..k -> GroupCandidates] : movies = EnrichedFrom(cs, genre_map)
    /\ providers = << >>
    /\ by_genre = << >>
    /\ frontend \in {"cli", "gui"}
    /\ pc = IF frontend = "cli" THEN "group" ELSE "finish"
    /\ runState = "running"
    /\ runMsg = "none"
    /\ saw401 = FALSE
    /\ qualifiedLog = << >>
    /\ callLog = << >>
    /\ movies_by_genre = << >>
    /\ clock = << >>
    /\ status_label = "Loading movies..."
    /\ genre_chips = {}
    /\ uiLog = << >>

\* main, lines 451-455
Group ==
    /\ frontend = "cli"
    /\ runState = "running"
    /\ pc = "group"
    /\ by_genre' = Grouped(movies)
    /\ pc' = "sort"
    /\ UNCHANGED <<getVars, jsonErrIsRequestException, resolveVars, discVars, configVars,
                   id_to_name, allowed_ids, genre_map, idx, movies, providers,
                   runState, runMsg, saw401, qualifiedLog, callLog, guiVars, enrichVars, rankVars>>

\* main, lines 457-464
SortCap ==
    /\ frontend = "cli"
    /\ runState = "running"
    /\ pc = "sort"
    /\ by_genre' = GroupSortCap(movies, MAX_RESULTS_PER_GENRE)
    /\ pc' = "grouped"
    /\ UNCHANGED <<getVars, jsonErrIsRequestException, resolveVars, discVars, configVars,
                   id_to_name, allowed_ids, genre_map, idx, movies, providers,
                   runState, runMsg, saw401, qualifiedLog, callLog, guiVars, enrichVars, rankVars>>

\* load_movies, line 132: self.movies_by_genre = {"All": movies}
GuiPublish ==
    /\ frontend = "gui"
    /\ runState = "running"
    /\ pc = "finish"
    /\ movies_by_genre' = [g \in {"All"} |-> movies]
    /\ pc' = "gui_group"
    /\ UNCHANGED <<getVars, jsonErrIsRequestException, resolveVars, discVars, configVars,
                   id_to_name, allowed_ids, genre_map, idx, movies, providers, by_genre,
                   runState, runMsg, saw401, qualifiedLog, callLog,
                   frontend, clock, status_label, genre_chips, uiLog, enrichVars, rankVars>>

\* load_movies, lines 133-137
GuiGroup ==
    /\ frontend = "gui"
    /\ runState = "running"
    /\ pc = "gui_group"
    /\ movies_by_genre' = GuiGrouped(movies)
    /\ pc' = "gui_sort"
    /\ UNCHANGED <<getVars, jsonErrIsRequestException, resolveVars, discVars, configVars,
                   id_to_name, allowed_ids, genre_map, idx, movies, providers, by_genre,
                   runState, runMsg, saw401, qualifiedLog, callLog,
                   frontend, clock, status_label, genre_chips, uiLog, enrichVars, rankVars>>

\* load_movies, lines 140-144; the "All" bucket is the list `movies` itself,
\* sorted in place
GuiSort ==
    /\ frontend = "gui"
    /\ runState = "running"
    /\ pc = "gui_sort"
    /\ movies_by_genre' = GuiSorted(movies_by_genre)
    /\ movies' = SortByScore(movies)
    /\ pc' = "gui_schedule"
    /\ UNCHANGED <<getVars, jsonErrIsRequestException, resolveVars, discVars, configVars,
                   id_to_name, allowed_ids, genre_map, idx, providers, by_genre,
                   runState, runMsg, saw401, qualifiedLog, callLog,
                   frontend, clock, status_label, genre_chips, uiLog, enrichVars, rankVars>>

GroupNext == Group \/ SortCap \/ GuiPublish \/ GuiGroup \/ GuiSort

SpecGroup == GroupInit /\ [][GroupNext]_vars

\* the candidates the enriched movies were built from
Sources == {movies[k].src : k \in 1..Len(movies)}

\* how many entries of a bucket were built from candidate i
Occurrences(bucket, i) == Cardinality({k \in 1..Len(bucket) : bucket[k].src = i})

\* the genre names of the movie built from candidate i
GenreNamesOf(i) ==
    UNION {{movies[k].genres[j] : j \in 1..Len(movies[k].genres)} :
                k \in {n \in 1..Len(movies) : movies[n].src = i}}

\* every movie once in each bucket of its genre names, in no other
\* per-genre bucket, and in at least one
OncePerGenre(buckets) ==
    \A i \in Sources :
        /\ GenreNamesOf(i) \subseteq DOMAIN buckets
        /\ \A g \in DOMAIN buckets \ {"All"} :
              Occurrences(buckets[g], i) = IF g \in GenreNamesOf(i) THEN 1 ELSE 0
        /\ \E g \in DOMAIN buckets \ {"All"} : Occurrences(buckets[g], i) >= 1

\* C11 (as stated): after grouping every qualifying movie is exactly once in
\* the bucket of all movies (the "All" bucket of the GUI, the list `movies`
\* of the command-line run), exactly once in the bucket of each distinct
\* genre name of its genres list, in no other bucket, and in at least one
\* per-genre bucket.
C11_GroupedExactlyOnce ==
    /\ (frontend = "cli" /\ pc = "sort") =>
          /\ \A i \in Sources : Occurrences(movies, i) = 1
          /\ OncePerGenre(by_genre)
    /\ (frontend = "gui" /\ pc = "gui_sort") =>
          /\ \A i \in Sources : Occurrences(movies_by_genre["All"], i) = 1
          /\ OncePerGenre(movies_by_genre)

\* rank_score(a) = rank_score(b)
ScoreEq(a, b) == ScoreGeq(a, b) /\ ScoreGeq(b, a)

\* no entry is behind one that scores lower, and entries that score the same
\* stand in the order of the candidates they were built from, which is the
\* order of the bucket before the sort
RankedStable(bucket) ==
    \A k \in 1..Len(bucket) : \A l \in (k + 1)..Len(bucket) :
        /\ ScoreGeq(bucket[k], bucket[l])
        /\ ScoreEq(bucket[k], bucket[l]) => bucket[k].src <= bucket[l].src

\* C12: after ranking every bucket, of the command-line run and of the GUI,
\* is in descending order of rank_score, and movies of a bucket that score
\* the same keep the relative order they had before the sort.
C12_BucketsRankedStable ==
    /\ pc = "grouped" => \A g \in DOMAIN by_genre : RankedStable(by_genre[g])
    /\ pc = "gui_schedule" => \A g \in DOMAIN movies_by_genre : RankedStable(movies_by_genre[g])

C12_Witness ==
    /\ pc = "gui_schedule"
    /\ \E g \in DOMAIN movies_by_genre \ {"All"} :
          LET b == movies_by_genre[g]
          IN  /\ Len(b) = 3
              /\ <<b[1].src, b[2].src, b[3].src>> = <<2, 3, 1>>
              /\ ScoreEq(b[1], b[2])
              /\ ~ScoreGeq(b[3], b[2])

(* The numeric fields of one raw candidate record, lines 443-445 of main *)

\* What a field of the decoded record can hold: nothing (key absent), null,
\* a number (in hundredths), a string that spells no number ("n/a") or a
\* string that spells an integer ("7", v in hundredths).
RawValues ==
    {[t |-> "missing", v |-> 0], [t |-> "null", v |-> 0], [t |-> "str", v |-> 0],
     [t |-> "numstr", v |-> 700]}
    \cup {[t |-> "num", v |-> x] : x \in {-150, 0, 725}}

RawCandidates == [vote_average : RawValues, vote_count : RawValues, popularity : RawValues]

Raised(exc) == [exc |-> exc, value |-> 0]

Value(x) == [exc |-> "none", value |-> x]

\* round(m.get("vote_average", 0.0), 1), in tenths: round() raises
\* TypeError on None and on a str
RoundRating(x) ==
    CASE x.t = "missing" -> Value(0)
      [] x.t = "num" -> Value(Round1(x.v))
      [] OTHER -> Raised("TypeError")

\* int() of a number truncates toward zero
Truncate(h) == IF h >= 0 THEN h \div 100 ELSE -((-h) \div 100)

\* int(m.get("vote_count", 0) or 0): None and 0 give way to 0, int() raises
\* ValueError on a str that spells no integer
IntVotes(x) ==
    CASE x.t \in {"missing", "null"} -> Value(0)
      [] x.t = "num" -> Value(Truncate(x.v))
      [] x.t = "numstr" -> Value(x.v \div 100)
      [] OTHER -> Raised("ValueError")

\* float(m.get("popularity", 0.0) or 0.0), in hundredths
FloatPopularity(x) ==
    CASE x.t \in {"missing", "null"} -> Value(0)
      [] x.t \in {"num", "numstr"} -> Value(x.v)
      [] OTHER -> Raised("ValueError")

\* the three fields as the dict literal of lines 440-449 evaluates them, in
\* order; the first exception leaves the literal
CoercedFields(m) ==
    LET r == RoundRating(m.vote_average)
        n == IntVotes(m.vote_count)
        p == FloatPopularity(m.popularity)
        exc == IF r.exc # "none" THEN r.exc ELSE IF n.exc # "none" THEN n.exc ELSE p.exc
    IN  [exc |-> exc,
         rating |-> IF exc = "none" THEN r.value ELSE 0,
         votes |-> IF exc = "none" THEN n.value ELSE 0,
         popularity |-> IF exc = "none" THEN p.value ELSE 0]

EnrichInit ==
    /\ GetIdle
    /\ jsonErrIsRequestException = TRUE
    /\ ResolveIdle
    /\ DiscIdle
    /\ MainIdle
    /\ GuiIdle
    /\ candidate \in RawCandidates
    /\ enriched = NotEnriched
    /\ RankIdle

\* lines 440-449 for a candidate that has an allowed provider
Enrich ==
    /\ enriched = NotEnriched
    /\ enriched' = CoercedFields(candidate)
    /\ UNCHANGED <<getVars, jsonErrIsRequestException, resolveVars, discVars, configVars,
                   mainVars, guiVars, candidate, rankVars>>

EnrichNext == Enrich

SpecEnrich == EnrichInit /\ [][EnrichNext]_vars

\* C13 (as stated): whatever the vote_average, vote_count and popularity of
\* the candidate, enrichment raises nothing, the movie's votes and popularity
\* are not negative, and its rating is 0.0 when vote_average is missing or
\* not a number.
C13_CoercionNeverFails ==
    enriched # NotEnriched =>
        /\ enriched.exc = "none"
        /\ enriched.votes >= 0
        /\ enriched.popularity >= 0
        /\ candidate.vote_average.t # "num" => enriched.rating = 0

(* The GUI: MovieFinderApp of main.py, its worker thread and its UI thread *)

MaxUiReads == 3             \* reads of movies_by_genre by the UI thread in one run

GuiInit ==
    /\ GetIdle
    /\ jsonErrIsRequestException \in BOOLEAN
    /\ ResolveIdle
    /\ DiscIdle
    /\ EnrichIdle
    /\ RankIdle
    /\ PREFERRED_PROVIDER_NAMES = {}
    /\ MAX_RESULTS_PER_GENRE = 0
    /\ serverDirectory \in Directories
    /\ serverGenres \in GenreLists
    /\ id_to_name = << >>
    /\ allowed_ids = {}
    /\ genre_map = << >>
    /\ idx = 0
    /\ movies = << >>
    /\ providers = << >>
    /\ by_genre = << >>
    /\ pc = "start"
    /\ runState = "idle"
    /\ runMsg = "none"
    /\ saw401 = FALSE
    /\ qualifiedLog = << >>
    /\ callLog = << >>
    /\ frontend = "gui"
    /\ movies_by_genre = << >>
    /\ clock = << >>
    /\ status_label = "Loading movies..."
    /\ genre_chips = {}
    /\ uiLog = << >>

\* on_start: the worker thread is started on load_movies
OnStart ==
    /\ frontend = "gui"
    /\ pc = "start"
    /\ pc' = "providers"
    /\ runState' = "running"
    /\ UNCHANGED <<getVars, jsonErrIsRequestException, resolveVars, discVars, configVars,
                   id_to_name, allowed_ids, genre_map, idx, movies, providers, by_genre,
                   runMsg, saw401, qualifiedLog, callLog, guiVars, enrichVars, rankVars>>

\* the worker stands at line 147 with both loops behind it; scheduled
\* while the buckets are still being filled and sorted.
ReadyToSchedule_Early == pc \in {"gui_group", "gui_sort", "gui_schedule"}

\* the worker stands at line 147 with both loops behind it
ReadyToSchedule == pc = "gui_schedule"

\* load_movies, line 147: Clock.schedule_once(self.update_ui); the thread ends
GuiSchedule ==
    /\ frontend = "gui"
    /\ runState = "running"
    /\ ReadyToSchedule
    /\ clock' = Append(clock, "update_ui")
    /\ runState' = "done"
    /\ UNCHANGED <<getVars, jsonErrIsRequestException, resolveVars, discVars, configVars,
                   id_to_name, allowed_ids, genre_map, idx, movies, providers, by_genre,
                   pc, runMsg, saw401, qualifiedLog, callLog,
                   frontend, movies_by_genre, status_label, genre_chips, uiLog, enrichVars, rankVars>>

\* load_movies, lines 149-150: an Exception that left the try block is
\* caught and show_error scheduled; the thread ends. A SystemExit is not an
\* Exception: it ends the thread without passing here.
GuiExcept ==
    /\ frontend = "gui"
    /\ runState = "failed"
    /\ clock' = Append(clock, "show_error")
    /\ runState' = "caught"
    /\ UNCHANGED <<getVars, jsonErrIsRequestException, resolveVars, discVars, configVars,
                   id_to_name, allowed_ids, genre_map, idx, movies, providers, by_genre,
                   pc, runMsg, saw401, qualifiedLog, callLog,
                   frontend, movies_by_genre, status_label, genre_chips, uiLog, enrichVars, rankVars>>

\* history: what a read by the UI thread found, and where the worker was
ReadEntry(by) ==
    [by |-> by, worker |-> runState, at |-> pc, saw |-> movies_by_genre]

\* update_ui, run by the UI thread from the clock: the genre buttons, the
\* "All" list through filter_genre("All"), the status line
UpdateUi ==
    /\ clock # << >>
    /\ Head(clock) = "update_ui"
    /\ clock' = Tail(clock)
    /\ genre_chips' = DOMAIN movies_by_genre \ {"All"}
    /\ status_label' = "Found"
    /\ uiLog' = Append(uiLog, ReadEntry("update_ui"))
    /\ UNCHANGED <<getVars, jsonErrIsRequestException, resolveVars, discVars, configVars,
                   mainVars, frontend, movies_by_genre, enrichVars, rankVars>>

\* show_error, run by the UI thread from the clock
ShowError ==
    /\ clock # << >>
    /\ Head(clock) = "show_error"
    /\ clock' = Tail(clock)
    /\ status_label' = "Error"
    /\ UNCHANGED <<getVars, jsonErrIsRequestException, resolveVars, discVars, configVars,
                   mainVars, frontend, movies_by_genre, genre_chips, uiLog, enrichVars, rankVars>>

\* filter_genre, run by the UI thread when a genre button is pressed
FilterGenre ==
    /\ Len(uiLog) < MaxUiReads
    /\ \E g \in genre_chips :
          uiLog' = Append(uiLog, ReadEntry("filter_genre"))
    /\ UNCHANGED <<getVars, jsonErrIsRequestException, resolveVars, discVars, configVars,
                   mainVars, frontend, movies_by_genre, clock, status_label, genre_chips,
                   enrichVars, rankVars>>

\* the steps of the worker thread
GuiWorker ==
    \/ FetchProviders
    \/ FetchGenres
    \/ Discover
    \/ WatchProviders
    \/ ImdbId
    \/ GuiPublish
    \/ GuiGroup
    \/ GuiSort
    \/ GuiSchedule
    \/ GuiExcept

\* the callbacks the UI thread runs from the clock
GuiCallbacks == UpdateUi \/ ShowError

GuiNext == OnStart \/ GuiWorker \/ GuiCallbacks \/ FilterGenre

\* the thread is started, the worker runs to its end (every request is
\* answered or times out), and the event loop runs every scheduled callback
SpecGui ==
    /\ GuiInit
    /\ [][GuiNext]_vars
    /\ WF_vars(OnStart)
    /\ WF_vars(GuiWorker)
    /\ WF_vars(GuiCallbacks)

\* C14 (as stated): every run eventually delivers the grouped result to
\* update_ui or shows the user a fatal message.
C14_RunEndsWithOutcome == <>(status_label \in {"Found", "Error"})

\* the genres list of the movie built from candidate i
GenresListOf(i) == movies[CHOOSE k \in 1..Len(movies) : movies[k].src = i].genres

\* the buckets hold the whole result: an "All" bucket with every movie once,
\* one bucket per genre name met, holding a movie as often as its genres
\* list names the genre, every bucket ranked
CompleteSorted(buckets) ==
    /\ DOMAIN buckets = {"All"} \cup GenresOf(movies)
    /\ \A g \in DOMAIN buckets : RankedStable(buckets[g])
    /\ \A i \in Sources :
          /\ Occurrences(buckets["All"], i) = 1
          /\ \A g \in DOMAIN buckets \ {"All"} :
                Occurrences(buckets[g], i) = CountIn(GenresListOf(i), g)

\* every read by the UI thread came after the worker's last step and found
\* the whole result
ReadsSeeResult ==
    \A n \in 1..Len(uiLog) :
        /\ uiLog[n].worker = "done"
        /\ CompleteSorted(uiLog[n].saw)
        /\ uiLog[n].saw = movies_by_genre

\* the callbacks waiting on the clock that are update_ui
PendingUpdates == {n \in 1..Len(clock) : clock[n] = "update_ui"}

LimbBase == 32768

SignificandBits == 53

RECURSIVE Trim(_)
Trim(a) == IF a = << >> THEN a
           ELSE IF a[Len(a)] = 0 THEN Trim(SubSeq(a, 1, Len(a) - 1)) ELSE a

RECURSIVE FromInt(_)
FromInt(n) == IF n = 0 THEN << >> ELSE <<n % LimbBase>> \o FromInt(n \div LimbBase)

Limb(a, i) == IF i <= Len(a) THEN a[i] ELSE 0

RECURSIVE AddFrom(_, _, _, _)
AddFrom(a, b, i, carry) ==
    IF i > Len(a) /\ i > Len(b)
    THEN IF carry = 0 THEN << >> ELSE <<carry>>
    ELSE LET s == Limb(a, i) + Limb(b, i) + carry
         IN  <<s % LimbBase>> \o AddFrom(a, b, i + 1, s \div LimbBase)

BigAdd(a, b) == AddFrom(a, b, 1, 0)

RECURSIVE MulSmallFrom(_, _, _, _)
MulSmallFrom(a, d, i, carry) ==
    IF i > Len(a)
    THEN IF carry = 0 THEN << >> ELSE <<carry>>
    ELSE LET s == a[i] * d + carry
         IN  <<s % LimbBase>> \o MulSmallFrom(a, d, i + 1, s \div LimbBase)

\* a * d for 0 <= d < LimbBase
BigMulSmall(a, d) == IF d = 0 THEN << >> ELSE MulSmallFrom(a, d, 1, 0)

RECURSIVE DivSmallFrom(_, _, _, _)
DivSmallFrom(a, d, i, rem) ==
    IF i = 0 THEN << >>
    ELSE LET s == rem * LimbBase + a[i]
         IN  DivSmallFrom(a, d, i - 1, s % d) \o <<s \div d>>

\* a \div d for 0 < d < LimbBase
BigDivSmall(a, d) == Trim(DivSmallFrom(a, d, Len(a), 0))

RECURSIVE ZeroLimbs(_)
ZeroLimbs(n) == IF n = 0 THEN << >> ELSE <<0>> \o ZeroLimbs(n - 1)

\* a * 2^s
BigShl(a, s) ==
    IF a = << >> THEN a
    ELSE ZeroLimbs(s \div 15) \o BigMulSmall(a, 2 ^ (s % 15))

\* a \div 2^s
BigShr(a, s) ==
    IF s \div 15 >= Len(a) THEN << >>
    ELSE BigDivSmall(SubSeq(a, s \div 15 + 1, Len(a)), 2 ^ (s % 15))

RECURSIVE MulFrom(_, _, _)
MulFrom(a, b, i) ==
    IF i > Len(b) THEN << >>
    ELSE BigAdd(ZeroLimbs(i - 1) \o BigMulSmall(a, b[i]), MulFrom(a, b, i + 1))

BigMul(a, b) == IF a = << >> \/ b = << >> THEN << >> ELSE Trim(MulFrom(a, b, 1))

RECURSIVE SmallBitLen(_)
SmallBitLen(n) == IF n = 0 THEN 0 ELSE 1 + SmallBitLen(n \div 2)

BitLen(a) == IF a = << >> THEN 0 ELSE 15 * (Len(a) - 1) + SmallBitLen(a[Len(a)])

IsOdd(a) == a # << >> /\ a[1] % 2 = 1

RECURSIVE LessFrom(_, _, _)
LessFrom(a, b, i) ==
    IF i = 0 THEN FALSE
    ELSE IF a[i] # b[i] THEN a[i] < b[i] ELSE LessFrom(a, b, i - 1)

\* a < b
BigLess(a, b) ==
    IF Len(a) # Len(b) THEN Len(a) < Len(b) ELSE LessFrom(a, b, Len(a))

FloatZero == [m |-> << >>, e |-> 0]

\* the binary64 value nearest to m * 2^e, ties to the even significand
RoundToFloat(m, e) ==
    IF BitLen(m) <= SignificandBits THEN [m |-> m, e |-> e]
    ELSE LET drop   == BitLen(m) - SignificandBits
             q2     == BigShr(m, drop - 1)
             q      == BigShr(q2, 1)
             sticky == BigShl(q2, drop - 1) # m
             up     == IsOdd(q2) /\ (sticky \/ IsOdd(q))
         IN  [m |-> IF up THEN BigAdd(q, <<1>>) ELSE q, e |-> e + drop]

\* n / d of two Python ints, 0 <= n, 0 < d < 2 * LimbBase: the quotient
\* correctly rounded.  The quotient of n * 2^k by d is taken with at least
\* two bits more than a significand, and a remainder sets its last bit.
IntTrueDiv(n, d) ==
    IF n = 0 THEN FloatZero
    ELSE LET k   == SignificandBits + 3 + SmallBitLen(d) - SmallBitLen(n)
             num == BigShl(FromInt(n), k)
             q   == BigDivSmall(num, d)
             inexact == BigMul(q, FromInt(d)) # num
         IN  RoundToFloat(IF inexact /\ ~IsOdd(q) THEN BigAdd(q, <<1>>) ELSE q, -k)

FloatOfInt(n) == RoundToFloat(FromInt(n), 0)

FMul(a, b) == RoundToFloat(BigMul(a.m, b.m), a.e + b.e)

\* the significands of a and b over the smaller of the two exponents
Aligned(a, b) ==
    LET e == IF a.e <= b.e THEN a.e ELSE b.e
    IN  [a |-> BigShl(a.m, a.e - e), b |-> BigShl(b.m, b.e - e), e |-> e]

FAdd(a, b) ==
    LET al == Aligned(a, b) IN RoundToFloat(BigAdd(al.a, al.b), al.e)

FLess(a, b) == LET al == Aligned(a, b) IN BigLess(al.a, al.b)

FLeq(a, b) == ~FLess(b, a)

FMin(a, b) == IF FLess(b, a) THEN b ELSE a

FMax(a, b) == IF FLess(a, b) THEN b ELSE a

RECURSIVE BigPred(_)
\* a - 1 for a > 0
BigPred(a) ==
    IF a[1] > 0 THEN Trim(<<a[1] - 1>> \o Tail(a))
    ELSE <<LimbBase - 1>> \o BigPred(Tail(a))

\* the float Python reads from the text of tenths / 10, moved by ulps
\* units in the last place (ulps is -1, 0 or 1)
FloatOf(tenths, ulps) ==
    LET f == IntTrueDiv(tenths, 10)
    IN  [m |-> IF ulps = 1 THEN BigAdd(f.m, <<1>>)
               ELSE IF ulps = -1 THEN BigPred(f.m) ELSE f.m,
         e |-> f.e]

\* rank_score_binary64 with the weights of the rating and of the prior swapped
rank_score_binary64_PriorSwapped(vote_average, vote_count, popularity) ==
    LET v == Max(0, vote_count)
        R == FMax(FloatZero, FMin(FloatOfInt(10), vote_average))
        P == Max(0, popularity)
        m == PriorVotes
        C == IntTrueDiv(PriorMean, 10)
        bayes == FAdd(FMul(IntTrueDiv(v, v + m), C), FMul(IntTrueDiv(m, v + m), R))
        norm_popularity == FMin(FloatOfInt(10), IntTrueDiv(P, 100))
    IN  FAdd(FMul(IntTrueDiv(7, 10), bayes), FMul(IntTrueDiv(3, 10), norm_popularity))

\* rank_score in binary64: vote_average a float, vote_count an int,
\* popularity a float with an integer value
rank_score_binary64(vote_average, vote_count, popularity) ==
    LET v == Max(0, vote_count)
        R == FMax(FloatZero, FMin(FloatOfInt(10), vote_average))
        P == Max(0, popularity)
        m == PriorVotes
        C == IntTrueDiv(PriorMean, 10)
        bayes == FAdd(FMul(IntTrueDiv(v, v + m), R), FMul(IntTrueDiv(m, v + m), C))
        norm_popularity == FMin(FloatOfInt(10), IntTrueDiv(P, 100))
    IN  FAdd(FMul(IntTrueDiv(7, 10), bayes), FMul(IntTrueDiv(3, 10), norm_popularity))

\* ---------------------------------------------------------------------
\* rank_score called with the same rating and popularity and growing
\* vote counts
\* ---------------------------------------------------------------------

MaxRankVotes == 20

MaxRankCalls == 2

MaxRankStep == 3

\* the largest divisor IntTrueDiv takes
MaxDivisor == 2 * LimbBase - 1

RankVoteStarts ==
    (0..MaxRankVotes)
        \cup {PriorVotes - 1, MaxDivisor - PriorVotes - MaxRankCalls * MaxRankStep}

RankPopularities == {0, 45, 2500}

\* the ratings main stores (round(x, 1) gives a multiple of 0.1 from 0.0 to
\* 10.0) and the floats next to the prior mean
RankRatings ==
    {[tenths |-> n, ulps |-> 0] : n \in 0..100}
        \cup {[tenths |-> PriorMean, ulps |-> u] : u \in {-1, 1}}

RankInit ==
    /\ GetIdle
    /\ jsonErrIsRequestException = TRUE
    /\ ResolveIdle
    /\ DiscIdle
    /\ MainIdle
    /\ GuiIdle
    /\ EnrichIdle
    /\ \E r \in RankRatings, v \in RankVoteStarts, p \in RankPopularities :
           scored = [tenths |-> r.tenths, ulps |-> r.ulps, vote_count |-> v, popularity |-> p]
    /\ scoreLog = << >>

\* one call of rank_score; the next call has more votes
RankCall ==
    /\ Len(scoreLog) < MaxRankCalls
    /\ scoreLog' = Append(scoreLog,
                          [vote_count |-> scored.vote_count,
                           score |-> rank_score_binary64(FloatOf(scored.tenths, scored.ulps),
                                                         scored.vote_count, scored.popularity)])
    /\ \E d \in 1..MaxRankStep : scored' = [scored EXCEPT !.vote_count = @ + d]
    /\ UNCHANGED <<getVars, jsonErrIsRequestException, resolveVars, discVars, configVars,
                   mainVars, guiVars, enrichVars>>

RankNext == RankCall

SpecRank == RankInit /\ [][RankNext]_vars

RatingAbovePrior == scored.tenths > PriorMean \/ (scored.tenths = PriorMean /\ scored.ulps = 1)

RatingBelowPrior == scored.tenths < PriorMean \/ (scored.tenths = PriorMean /\ scored.ulps = -1)

\* the scores logged do not fall (rating above the prior mean) or rise
\* (rating below it) from a call to a later one, which has more votes
ScoresFollowVotes ==
    \A i, j \in 1..Len(scoreLog) :
        i < j =>
            /\ RatingAbovePrior => FLeq(scoreLog[i].score, scoreLog[j].score)
            /\ RatingBelowPrior => FLeq(scoreLog[j].score, scoreLog[i].score)

C17_BackoffSchedule ==
    \A n \in 1..Len(getLog) :
        LET k == getLog[n].attempt
        IN  /\ k = n - 1
            /\ getLog[n].preDelay = IF k = 0 THEN 0
                                    ELSE IF 3 * (2 ^ k) < 20 THEN 3 * (2 ^ k) ELSE 20
            /\ getLog[n].preDelay <= 20
            /\ n > 1 => getLog[n - 1].preDelay <= getLog[n].preDelay

C17_Witness ==
    /\ Len(getLog) = 4
    /\ <<getLog[1].preDelay, getLog[2].preDelay, getLog[3].preDelay, getLog[4].preDelay>>
          = <<0, 6, 12, 20>>

\* the entries of the call log ahead of position n that are of the given call
Earlier(n, call) == {j \in 1..(n - 1) : callLog[j].call = call}

\* C18: the calls of a run are made in a fixed order: the provider directory
\* first and the genre directory second, each once; then the discovery
\* pages, all of them ahead of every per-movie request; then, for the
\* candidates in discovery order, the watch-providers request, followed by
\* the external-id request of the same candidate only when the candidate has
\* an allowed provider.
C18_CallOrder ==
    \A n \in 1..Len(callLog) :
        LET e == callLog[n]
        IN  /\ e.call = "providers" <=> n = 1
            /\ e.call = "genres" <=> n = 2
            /\ e.call = "page" => (n = 3 /\ e.arg = 1)
            /\ e.call = "watch" =>
                  /\ n > 3
                  /\ e.arg = 1 + Cardinality(Earlier(n, "watch"))
                  /\ e.arg <= Len(results)
            /\ e.call = "imdb" =>
                  /\ callLog[n - 1] = [call |-> "watch", arg |-> e.arg]
                  /\ qualifiedLog[e.arg].nonBlank

C18_Witness ==
    /\ runState = "done"
    /\ Len(results) = 2
    /\ callLog = <<[call |-> "providers", arg |-> 0], [call |-> "genres", arg |-> 0],
                   [call |-> "page", arg |-> 1], [call |-> "watch", arg |-> 1],
                   [call |-> "watch", arg |-> 2], [call |-> "imdb", arg |-> 2]>>
====
